---- MODULE Spec2Model ----
(***************************************************************************)
(* Model of app.py, the Streamlit form of the crime-predictor project.     *)
(*                                                                         *)
(* Streamlit runs the script top to bottom on every user interaction.  A   *)
(* script run first calls the cached load_model, then renders the widgets, *)
(* and, when the run was triggered by the 'Predict Risk' button, encodes   *)
(* the widget values, calls the classifier and renders the result.         *)
(*                                                                         *)
(* Units: latitude and longitude are in hundredths of a degree (the        *)
(* widgets' step is 0.01), prediction_proba is in units of 10^-5, so that  *)
(* prediction_proba * 100 is in thousandths of a percent, and              *)
(* prediction_score is in hundredths of a percent (two decimals).          *)
(***************************************************************************)
EXTENDS Integers, Sequences, FiniteSets, TLC

VARIABLES
    cache,      \* st.cache_resource store of load_model: set of <<path, handle>>
    loads,      \* number of joblib.load calls that returned a model so far
    model,      \* the script's global `model` in the last run: <<>> or <<handle>>
    raw,        \* the widgets' current values (session state)
    page,       \* what the last script run computed and rendered
    ref,        \* history: one remembered submission, <<>> or <<[raw, row, later]>>
    probe       \* harness of the bucketing function: two percentages and their tiers

vars == <<cache, loads, model, raw, page, ref, probe>>

\* ------------------------------------------------------------------ bounds
MaxLoads == 2
MaxLater == 2

\* ------------------------------------------------------- program constants
MODEL_PATH_STR == "models/crime_predictor_model.joblib"

MinLatitude == -90
MaxLatitude == 90
DefaultLatitude == 2870
MinLongitude == -180
MaxLongitude == 180
DefaultLongitude == 7710
MinAge == 0
MaxAge == 100
DefaultAge == 35
MinPolice == 1
MaxPolice == 50
DefaultPolice == 15
HighThreshold == 70
ModerateThreshold == 40

GenderOptions == <<"Male", "Other", "X", "Female">>
DefaultGenderIndex == 3
WeaponOptions == <<"Blunt Object", "Explosives", "Firearm", "Knife", "None",
                   "Other", "Poison", "Unknown">>
DefaultWeaponIndex == 2
CaseClosedOptions == <<"No", "Yes">>
DefaultCaseClosedIndex == 0

Range(s) == {s[i] : i \in DOMAIN s}

\* ------------------------------------------------------------ date and time
\* datetime.date: proleptic Gregorian ordinal and weekday (Monday is 0).
IsLeap(y) == (y % 4 = 0) /\ ((y % 100 # 0) \/ (y % 400 = 0))

DaysBeforeYear(y) ==
    LET p == y - 1 IN p * 365 + (p \div 4) - (p \div 100) + (p \div 400)

DaysInMonth(y, m) ==
    IF m = 2 THEN (IF IsLeap(y) THEN 29 ELSE 28)
    ELSE IF m \in {4, 6, 9, 11} THEN 30 ELSE 31

RECURSIVE DaysBeforeMonth(_, _)
DaysBeforeMonth(y, m) ==
    IF m = 1 THEN 0 ELSE DaysBeforeMonth(y, m - 1) + DaysInMonth(y, m - 1)

ToOrdinal(d) == DaysBeforeYear(d.year) + DaysBeforeMonth(d.year, d.month) + d.day

Weekday(d) == (ToOrdinal(d) + 6) % 7

\* Values the date and time widgets are driven with.
DateSamples ==
    { [year |-> 2026, month |-> 6, day |-> 3],      \* a Wednesday
      [year |-> 2023, month |-> 1, day |-> 1] }     \* a Sunday

TimeSamples ==
    { [hour |-> 10, minute |-> 30], [hour |-> 23, minute |-> 59] }

\* ------------------------------------------------------------------ widgets
Fields == {"latitude", "longitude", "report_datetime", "report_time",
           "victim_age", "police_deployed", "victim_gender", "weapon_used",
           "case_closed"}

\* The values each widget of the form can return (numeric widgets sampled at
\* their minimum, default and maximum).
FormOptions ==
    [ latitude        |-> {MinLatitude * 100, DefaultLatitude},
      longitude       |-> {DefaultLongitude, MaxLongitude * 100},
      report_datetime |-> DateSamples,
      report_time     |-> TimeSamples,
      victim_age      |-> {MinAge, DefaultAge, MaxAge},
      police_deployed |-> {DefaultPolice, MaxPolice},
      victim_gender   |-> Range(GenderOptions),
      weapon_used     |-> Range(WeaponOptions),
      case_closed     |-> Range(CaseClosedOptions) ]

\* The widgets' values in a fresh session; the date and time widgets default
\* to datetime.now().
DefaultRaws ==
    { [ latitude        |-> DefaultLatitude,
        longitude       |-> DefaultLongitude,
        report_datetime |-> d,
        report_time     |-> t,
        victim_age      |-> DefaultAge,
        police_deployed |-> DefaultPolice,
        victim_gender   |-> GenderOptions[DefaultGenderIndex + 1],
        weapon_used     |-> WeaponOptions[DefaultWeaponIndex + 1],
        case_closed     |-> CaseClosedOptions[DefaultCaseClosedIndex + 1] ]
      : d \in DateSamples, t \in TimeSamples }

\* ------------------------------------------------------------------ encoder
\* `1 if value == category else 0`.
Dummy(value, category) == IF value = category THEN 1 ELSE 0

\* Mutant: the M dummy set for every gender but the baseline.
victim_gender_dummies_NotFemale(victim_gender) ==
    [ victim_gender_M |-> 1 - Dummy(victim_gender, "Female"),
      victim_gender_X |-> Dummy(victim_gender, "X") ]

\* The two victim gender dummies.
victim_gender_dummies(victim_gender) ==
    [ victim_gender_M |-> Dummy(victim_gender, "Male"),
      victim_gender_X |-> Dummy(victim_gender, "X") ]

\* Mutant: the dictionary without its weapon_used_Firearm comparison.
weapon_used_dummies_NoFirearm(weapon_used) ==
    [ weapon_used_Firearm    |-> 0,
      weapon_used_Explosives |-> Dummy(weapon_used, "Explosives"),
      weapon_used_Knife      |-> Dummy(weapon_used, "Knife"),
      weapon_used_Other      |-> Dummy(weapon_used, "Other"),
      weapon_used_Poison     |-> Dummy(weapon_used, "Poison"),
      weapon_used_Unknown    |-> Dummy(weapon_used, "Unknown") ]

\* The six weapon dummies.
weapon_used_dummies(weapon_used) ==
    [ weapon_used_Firearm    |-> Dummy(weapon_used, "Firearm"),
      weapon_used_Explosives |-> Dummy(weapon_used, "Explosives"),
      weapon_used_Knife      |-> Dummy(weapon_used, "Knife"),
      weapon_used_Other      |-> Dummy(weapon_used, "Other"),
      weapon_used_Poison     |-> Dummy(weapon_used, "Poison"),
      weapon_used_Unknown    |-> Dummy(weapon_used, "Unknown") ]

\* Mutant: a dictionary kept across runs, whose case_closed_Yes entry adds
\* to the one of the submission before.
Data_Accumulating(r) ==
    LET g == victim_gender_dummies(r.victim_gender)
        w == weapon_used_dummies(r.weapon_used)
        before == IF page.predicted THEN page.input_df.row[16] ELSE 0
    IN
    << <<"victim_age", r.victim_age>>,
       <<"police_deployed", r.police_deployed>>,
       <<"latitude", r.latitude>>,
       <<"longitude", r.longitude>>,
       <<"report_hour", r.report_time.hour>>,
       <<"report_day_of_week", Weekday(r.report_datetime)>>,
       <<"report_month", r.report_datetime.month>>,
       <<"case_closed_Yes", before + Dummy(r.case_closed, "Yes")>>,
       <<"victim_gender_M", g.victim_gender_M>>,
       <<"victim_gender_X", g.victim_gender_X>>,
       <<"weapon_used_Firearm", w.weapon_used_Firearm>>,
       <<"weapon_used_Explosives", w.weapon_used_Explosives>>,
       <<"weapon_used_Knife", w.weapon_used_Knife>>,
       <<"weapon_used_Other", w.weapon_used_Other>>,
       <<"weapon_used_Poison", w.weapon_used_Poison>>,
       <<"weapon_used_Unknown", w.weapon_used_Unknown>> >>

\* The `data` dictionary, as its (key, value) items in insertion order.
Data(r) ==
    LET g == victim_gender_dummies(r.victim_gender)
        w == weapon_used_dummies(r.weapon_used)
    IN
    << <<"victim_age", r.victim_age>>,
       <<"police_deployed", r.police_deployed>>,
       <<"latitude", r.latitude>>,
       <<"longitude", r.longitude>>,
       <<"report_hour", r.report_time.hour>>,
       <<"report_day_of_week", Weekday(r.report_datetime)>>,
       <<"report_month", r.report_datetime.month>>,
       <<"case_closed_Yes", Dummy(r.case_closed, "Yes")>>,
       <<"victim_gender_M", g.victim_gender_M>>,
       <<"victim_gender_X", g.victim_gender_X>>,
       <<"weapon_used_Firearm", w.weapon_used_Firearm>>,
       <<"weapon_used_Explosives", w.weapon_used_Explosives>>,
       <<"weapon_used_Knife", w.weapon_used_Knife>>,
       <<"weapon_used_Other", w.weapon_used_Other>>,
       <<"weapon_used_Poison", w.weapon_used_Poison>>,
       <<"weapon_used_Unknown", w.weapon_used_Unknown>> >>

\* pd.DataFrame(data): one row, columns in the dictionary's order.
DataFrame(d) ==
    [ columns |-> [i \in DOMAIN d |-> d[i][1]],
      row     |-> [i \in DOMAIN d |-> d[i][2]] ]

NoFrame == [columns |-> <<>>, row |-> <<>>]

\* Mutant: the columns listed in the dictionary's order.
expected_columns_DictOrder ==
    << "victim_age", "police_deployed", "latitude", "longitude", "report_hour",
       "report_day_of_week", "report_month", "case_closed_Yes", "victim_gender_M",
       "victim_gender_X", "weapon_used_Firearm", "weapon_used_Explosives",
       "weapon_used_Knife", "weapon_used_Other", "weapon_used_Poison",
       "weapon_used_Unknown" >>

expected_columns ==
    << "victim_age", "police_deployed", "latitude", "longitude", "report_hour",
       "report_day_of_week", "report_month", "victim_gender_M", "victim_gender_X",
       "weapon_used_Explosives", "weapon_used_Firearm", "weapon_used_Knife",
       "weapon_used_Other", "weapon_used_Poison", "weapon_used_Unknown",
       "case_closed_Yes" >>

ColumnIndex(df, c) == CHOOSE i \in DOMAIN df.columns : df.columns[i] = c

\* input_df[expected_columns]: the columns named, in the order named; a
\* KeyError naming the missing ones when some are not columns of the frame.
SelectColumns(df, cols) ==
    LET missing == SelectSeq(cols, LAMBDA c : c \notin Range(df.columns)) IN
    IF missing # <<>>
    THEN [ok |-> FALSE, missing |-> missing, df |-> NoFrame]
    ELSE [ok |-> TRUE, missing |-> <<>>,
          df |-> [ columns |-> cols,
                   row |-> [i \in DOMAIN cols |-> df.row[ColumnIndex(df, cols[i])]] ]]

\* --------------------------------------------------------------- load_model
\* What joblib.load(path) can do: return the model, fail with
\* FileNotFoundError, or fail with another exception whose text may or may
\* not contain the path (a corrupt pickle, a permission error).
LoadOutcomes ==
    { [kind |-> "ok", text |-> <<>>],
      [kind |-> "FileNotFoundError",
       text |-> <<"[Errno 2] No such file or directory: ", MODEL_PATH_STR>>],
      [kind |-> "Exception", text |-> <<"invalid load key, '\\x00'.">>],
      [kind |-> "Exception",
       text |-> <<"[Errno 13] Permission denied: ", MODEL_PATH_STR>>] }

Cached(path) == {e \in cache : e[1] = path}

\* Mutant: load_model without @st.cache_resource, the body run on every call.
load_model_Uncached(path, lo) ==
    IF lo.kind = "ok"
    THEN [ ok |-> TRUE, cache |-> cache, loads |-> loads + 1,
           model |-> <<loads + 1>>, error |-> <<>> ]
    ELSE IF lo.kind = "FileNotFoundError"
    THEN [ ok |-> FALSE, cache |-> cache, loads |-> loads, model |-> <<>>,
           error |-> <<"Error: Model file not found at ", path,
                       ". Please ensure the path and file name are correct and that you ran Notebook 2.">> ]
    ELSE [ ok |-> FALSE, cache |-> cache, loads |-> loads, model |-> <<>>,
           error |-> <<"Error loading model: ">> \o lo.text ]

\* load_model under @st.cache_resource: a cached handle is returned without
\* running the body; otherwise the body runs, and only a returned model is
\* stored (st.stop() raises, and nothing is cached).
load_model(path, lo) ==
    IF Cached(path) # {}
    THEN [ ok |-> TRUE, cache |-> cache, loads |-> loads,
           model |-> <<(CHOOSE e \in Cached(path) : TRUE)[2]>>, error |-> <<>> ]
    ELSE IF lo.kind = "ok"
    THEN [ ok |-> TRUE, cache |-> cache \cup {<<path, loads + 1>>},
           loads |-> loads + 1, model |-> <<loads + 1>>, error |-> <<>> ]
    ELSE IF lo.kind = "FileNotFoundError"
    THEN [ ok |-> FALSE, cache |-> cache, loads |-> loads, model |-> <<>>,
           error |-> <<"Error: Model file not found at ", path,
                       ". Please ensure the path and file name are correct and that you ran Notebook 2.">> ]
    ELSE [ ok |-> FALSE, cache |-> cache, loads |-> loads, model |-> <<>>,
           error |-> <<"Error loading model: ">> \o lo.text ]

\* ---------------------------------------------------------------- classifier
\* Positive-class probabilities the classifier is driven with, in units of
\* 10^-5: the scenario values, the thresholds and their neighbourhoods.
ProbaSamples ==
    { 0, 10000, 39996, 40000, 55000, 69994, 69995, 69996, 70000, 85000, 100000 }

\* What model.predict_proba(input_df)[:, 1][0] can do: return a probability
\* or raise.
PredictOutcomes ==
    { [kind |-> "proba", value |-> p, text |-> <<>>] : p \in ProbaSamples }
    \cup
    { [kind |-> "raise", value |-> 0,
       text |-> <<"X has 16 features, but RandomForestClassifier is expecting 18 features as input.">>] }

\* round(prediction_proba * 100, 2), from thousandths to hundredths of a
\* percent.  prediction_proba is a numpy float64: a value half-way between
\* two hundredths is not a binary float, and the product and its rounding
\* land on either neighbour, depending on which side the float lies.
Round2(x) ==
    LET q == x \div 10
        r == x % 10
    IN  IF r < 5 THEN {q} ELSE IF r > 5 THEN {q + 1} ELSE {q, q + 1}

\* The text of a float with at most two decimals, as f"{prediction_score}"
\* prints it: the integer part and the decimals without trailing zeros (at
\* least one decimal).
Repr(h) ==
    LET f == h % 100 IN
    << h \div 100,
       IF f % 10 = 0 THEN <<f \div 10>> ELSE <<f \div 10, f % 10>> >>

\* Mutant: strict comparisons with the thresholds.
RiskAssessment_Strict(prediction_score) ==
    IF prediction_score > HighThreshold * 100
    THEN [risk_level |-> "HIGH RISK", color |-> "#ff4d4d"]
    ELSE IF prediction_score > ModerateThreshold * 100
    THEN [risk_level |-> "MODERATE RISK", color |-> "#ffc300"]
    ELSE [risk_level |-> "LOW RISK", color |-> "#32cd32"]

\* The dynamic risk assessment: the tier and its colour for a score in
\* hundredths of a percent.
RiskAssessment(prediction_score) ==
    IF prediction_score >= HighThreshold * 100
    THEN [risk_level |-> "HIGH RISK", color |-> "#ff4d4d"]
    ELSE IF prediction_score >= ModerateThreshold * 100
    THEN [risk_level |-> "MODERATE RISK", color |-> "#ffc300"]
    ELSE [risk_level |-> "LOW RISK", color |-> "#32cd32"]

\* ---------------------------------------------------------------------- page
\* A script run that rendered the form only.
FormPage ==
    [ status |-> "form", success |-> TRUE, error |-> <<>>, input_df |-> NoFrame,
      predicted |-> FALSE, prediction_proba |-> <<>>, prediction_score |-> <<>>,
      display |-> <<>>, risk_level |-> "", color |-> "" ]

\* Mutant: the tier taken from the probability before it is rounded.
ResultPage_RawTier(input_df, prediction_proba, prediction_score) ==
    LET ra == RiskAssessment(prediction_proba \div 10) IN
    [ FormPage EXCEPT !.status = "result", !.input_df = input_df,
                      !.predicted = TRUE,
                      !.prediction_proba = <<prediction_proba>>,
                      !.prediction_score = <<prediction_score>>,
                      !.display = Repr(prediction_score),
                      !.risk_level = ra.risk_level, !.color = ra.color ]

\* The result block rendered for a probability and its rounded score.
ResultPage(input_df, prediction_proba, prediction_score) ==
    LET ra == RiskAssessment(prediction_score) IN
    [ FormPage EXCEPT !.status = "result", !.input_df = input_df,
                      !.predicted = TRUE,
                      !.prediction_proba = <<prediction_proba>>,
                      !.prediction_score = <<prediction_score>>,
                      !.display = Repr(prediction_score),
                      !.risk_level = ra.risk_level, !.color = ra.color ]

\* Mutant: the except branch falling back to the lowest tier.
PredictErrorPage_DefaultTier(input_df, text) ==
    [ FormPage EXCEPT !.status = "predict_error", !.input_df = input_df,
                      !.predicted = TRUE,
                      !.error = <<"An error occurred during prediction: ">> \o text,
                      !.risk_level = "LOW RISK", !.color = "#32cd32" ]

\* The except branch around the prediction: the error message alone.
PredictErrorPage(input_df, text) ==
    [ FormPage EXCEPT !.status = "predict_error", !.input_df = input_df,
                      !.predicted = TRUE,
                      !.error = <<"An error occurred during prediction: ">> \o text ]

\* The body of `if st.button('Predict Risk')`: encode, reorder, predict,
\* render.  po is what predict_proba does, s the rounded score.
PredictRisk(r, po, s) ==
    LET sel == SelectColumns(DataFrame(Data(r)), expected_columns) IN
    IF ~sel.ok
    THEN [ FormPage EXCEPT !.status = "schema_halted",
             !.error = <<"FATAL FEATURE MISMATCH: A column name is still missing or incorrect: ">>
                       \o sel.missing \o <<". The expected features list is wrong.">> ]
    ELSE IF po.kind = "raise"
    THEN PredictErrorPage(sel.df, po.text)
    ELSE ResultPage(sel.df, po.value, s)

\* One run of the script: load_model, the widgets, and the button's body
\* when the run was triggered by the button.
Script(r, clicked, lo, po, s) ==
    LET lm == load_model(MODEL_PATH_STR, lo) IN
    [ cache |-> lm.cache, loads |-> lm.loads, model |-> lm.model,
      page  |-> IF ~lm.ok
                THEN [FormPage EXCEPT !.status = "load_halted",
                                      !.success = FALSE, !.error = lm.error]
                ELSE IF clicked THEN PredictRisk(r, po, s) ELSE FormPage ]

\* The score rendered for a probability p (units of 10^-5): p * 100 percent
\* is p thousandths of a percent, rounded to hundredths.
PredictionScores(p) == Round2(p)

\* ------------------------------------------------------------------- actions
NotRunPage == [FormPage EXCEPT !.status = "not_run", !.success = FALSE]

NoProbe == [a |-> 0, b |-> 0, ta |-> "", tb |-> ""]

InitApp(raws) ==
    /\ cache = {}
    /\ loads = 0
    /\ model = <<>>
    /\ raw \in raws
    /\ page = NotRunPage
    /\ ref = <<>>

Init == InitApp(DefaultRaws) /\ probe = NoProbe

\* The widgets are on the page once a run got past load_model.
WidgetsRendered ==
    page.status \in {"form", "result", "predict_error", "schema_halted"}

NoPredict == [kind |-> "none", value |-> 0, text |-> <<>>]

\* joblib.load is called, and its outcome drawn, only on a cache miss.
LoadAttempts ==
    IF Cached(MODEL_PATH_STR) = {} THEN LoadOutcomes
    ELSE {lo \in LoadOutcomes : lo.kind = "ok"}

\* A script run with widget values r.
Run(r, clicked, lo, po, s) ==
    \E out \in {Script(r, clicked, lo, po, s)} :
    /\ out.loads <= MaxLoads
    /\ cache' = out.cache
    /\ loads' = out.loads
    /\ model' = out.model
    /\ page' = out.page
    /\ raw' = r

\* The user reruns the script (first visit of the page, 'R', or a retry after
\* a halted run); the widgets keep their values.
Rerun ==
    /\ \E lo \in LoadAttempts : Run(raw, FALSE, lo, NoPredict, 0)
    /\ UNCHANGED <<ref, probe>>

\* A new browser session on the same process: the widgets are at their
\* defaults, the cache is shared.
NewSession ==
    /\ page.status # "not_run"
    /\ \E r \in DefaultRaws, lo \in LoadAttempts : Run(r, FALSE, lo, NoPredict, 0)
    /\ UNCHANGED <<ref, probe>>

\* The user changes one widget, which reruns the script without the button.
ChangeWidget(opts) ==
    /\ WidgetsRendered
    /\ \E f \in Fields : \E v \in opts[f] :
          /\ v # raw[f]
          /\ \E lo \in LoadAttempts :
                Run([raw EXCEPT ![f] = v], FALSE, lo, NoPredict, 0)
    /\ UNCHANGED <<ref, probe>>

\* The remembered submission after one more submission (the count saturates).
Later(h) ==
    IF h = <<>> THEN h
    ELSE <<[h[1] EXCEPT !.later = IF @ < MaxLater THEN @ + 1 ELSE @]>>

\* The user presses 'Predict Risk', which reruns the script with the button
\* set.  With track, the submission may be remembered in ref.
ClickPredict(outcomes, track) ==
    /\ WidgetsRendered
    /\ \E lo \in LoadAttempts, po \in outcomes :
          \E s \in (IF po.kind = "proba" THEN PredictionScores(po.value) ELSE {0}) :
             Run(raw, TRUE, lo, po, s)
    /\ \/ ~track /\ ref' = ref
       \/ track /\ ref' = Later(ref)
       \/ /\ track
          /\ page'.predicted
          /\ ref' = <<[raw |-> raw, row |-> page'.input_df.row, later |-> 0]>>
    /\ UNCHANGED probe

Next ==
    \/ Rerun
    \/ NewSession
    \/ ChangeWidget(FormOptions)
    \/ ClickPredict(PredictOutcomes, FALSE)

Spec == Init /\ [][Next]_vars

\* --- the form driven with category values outside the selectboxes' lists
OpenOptions ==
    [ FormOptions EXCEPT !.weapon_used = @ \cup {"Acid"},
                         !.victim_gender = @ \cup {"Unlisted"},
                         !.latitude = {DefaultLatitude},
                         !.longitude = {DefaultLongitude},
                         !.police_deployed = {DefaultPolice} ]

NextOpen ==
    \/ Rerun
    \/ NewSession
    \/ ChangeWidget(OpenOptions)
    \/ ClickPredict(PredictOutcomes, FALSE)

SpecOpen == Init /\ [][NextOpen]_vars

\* --- pairs of submissions: one earlier submission is remembered in ref
PurityRaw ==
    CHOOSE r \in DefaultRaws :
        r.report_datetime.year = 2026 /\ r.report_time.hour = 10

PurityOptions ==
    [ f \in Fields |->
        IF f \in {"victim_gender", "weapon_used", "case_closed"}
        THEN FormOptions[f] ELSE {PurityRaw[f]} ]

PurityOutcomes == {po \in PredictOutcomes : po.value \in {0, 85000}}

NextPurity ==
    \/ Rerun
    \/ ChangeWidget(PurityOptions)
    \/ ClickPredict(PurityOutcomes, TRUE)

InitPurity == InitApp({PurityRaw}) /\ probe = NoProbe

SpecPurity == InitPurity /\ [][NextPurity]_vars

\* --- the bucketing function on every score from 0.00 to 100.00
PercentScores == 0 .. (100 * 100)

BucketSamples == {0, 1000, 3999, 4000, 4001, 5500, 6999, 7000, 7001, 8500, 100 * 100}

InitBucket ==
    /\ InitApp({PurityRaw})
    /\ probe \in {[NoProbe EXCEPT !.a = a, !.b = b] : a \in PercentScores, b \in BucketSamples}

ApplyBucket ==
    /\ probe.ta = ""
    /\ probe' = [probe EXCEPT !.ta = RiskAssessment(probe.a).risk_level,
                              !.tb = RiskAssessment(probe.b).risk_level]
    /\ UNCHANGED <<cache, loads, model, raw, page, ref>>

NextBucket == ApplyBucket

SpecBucket == InitBucket /\ [][NextBucket]_vars

\* ==================================================================== claims
Slot(df, name) == df.row[ColumnIndex(df, name)]

Submitted == page.status \in {"result", "predict_error", "schema_halted"}

SlotOrder ==
    << "victim_age", "police_deployed", "latitude", "longitude", "report_hour",
       "report_day_of_week", "report_month", "victim_gender_M", "victim_gender_X",
       "weapon_used_Explosives", "weapon_used_Firearm", "weapon_used_Knife",
       "weapon_used_Other", "weapon_used_Poison", "weapon_used_Unknown",
       "case_closed_Yes" >>

\* The weekday and month of the dates the model is driven with, from the
\* calendar.
CalendarOf(d) ==
    IF d = [year |-> 2026, month |-> 6, day |-> 3]
    THEN [weekday |-> 2, month |-> 6]
    ELSE [weekday |-> 6, month |-> 1]

\* C1: on every submit of valid form values, the frame handed to the
\* classifier has exactly the 16 slots in the fixed order, its first seven
\* slots are the raw values, each of the nine dummy slots is 0 or 1, at most
\* one gender dummy and at most one weapon dummy is 1.
C1_EncodedVector ==
    page.predicted =>
        LET row == page.input_df.row IN
        /\ Len(row) = 16
        /\ page.input_df.columns = SlotOrder
        /\ row[1] = raw.victim_age
        /\ row[2] = raw.police_deployed
        /\ row[3] = raw.latitude
        /\ row[4] = raw.longitude
        /\ row[5] = raw.report_time.hour
        /\ row[6] = CalendarOf(raw.report_datetime).weekday
        /\ row[7] = CalendarOf(raw.report_datetime).month
        /\ \A i \in 8 .. 16 : row[i] \in {0, 1}
        /\ row[8] + row[9] <= 1
        /\ row[10] + row[11] + row[12] + row[13] + row[14] + row[15] <= 1

\* The scenario of the specification: 35, 15, 28.70, 77.10, hour 10,
\* Wednesday, June, Female, Firearm, No.
C1_Witness ==
    /\ page.predicted
    /\ raw.victim_gender = "Female" /\ raw.weapon_used = "Firearm"
    /\ raw.case_closed = "No"
    /\ page.input_df.row =
         <<35, 15, 2870, 7710, 10, 2, 6, 0, 0, 0, 1, 0, 0, 0, 0, 0>>

\* C7: victim_gender_M is 1 exactly for Male, victim_gender_X is 1 exactly
\* for X, and Female and Other both give 0 and 0.
C7_GenderDummies ==
    page.predicted =>
        LET m == Slot(page.input_df, "victim_gender_M")
            x == Slot(page.input_df, "victim_gender_X")
        IN  /\ (m = 1) <=> (raw.victim_gender = "Male")
            /\ (x = 1) <=> (raw.victim_gender = "X")
            /\ raw.victim_gender \in {"Female", "Other"} => (m = 0 /\ x = 0)

C7_Witness ==
    /\ page.predicted
    /\ raw.victim_gender = "Other"
    /\ Slot(page.input_df, "victim_gender_M") = 0
    /\ Slot(page.input_df, "victim_gender_X") = 0

WeaponSlots ==
    { "weapon_used_Explosives", "weapon_used_Firearm", "weapon_used_Knife",
      "weapon_used_Other", "weapon_used_Poison", "weapon_used_Unknown" }

WeaponSlotOf ==
    [ Explosives |-> "weapon_used_Explosives", Firearm |-> "weapon_used_Firearm",
      Knife |-> "weapon_used_Knife", Other |-> "weapon_used_Other",
      Poison |-> "weapon_used_Poison", Unknown |-> "weapon_used_Unknown" ]

\* C8: Blunt Object and None give six weapon dummies of 0; every other listed
\* weapon gives 1 in the slot named after it and 0 in the other five.
C8_WeaponDummies ==
    (page.predicted /\ raw.weapon_used \in Range(WeaponOptions)) =>
        IF raw.weapon_used \in {"Blunt Object", "None"}
        THEN \A n \in WeaponSlots : Slot(page.input_df, n) = 0
        ELSE \A n \in WeaponSlots :
                Slot(page.input_df, n) =
                    (IF n = WeaponSlotOf[raw.weapon_used] THEN 1 ELSE 0)

C8_Witness ==
    /\ page.predicted
    /\ raw.weapon_used = "Knife"
    /\ Slot(page.input_df, "weapon_used_Knife") = 1
    /\ \A n \in WeaponSlots \ {"weapon_used_Knife"} : Slot(page.input_df, n) = 0

TierRank == [n \in {"LOW RISK", "MODERATE RISK", "HIGH RISK"} |->
                IF n = "LOW RISK" THEN 0 ELSE IF n = "MODERATE RISK" THEN 1 ELSE 2]

TierAgrees(tier, score) ==
    /\ tier \in DOMAIN TierRank
    /\ (tier = "HIGH RISK") <=> (score >= 7000)
    /\ (tier = "MODERATE RISK") <=> (score >= 4000 /\ score < 7000)
    /\ (tier = "LOW RISK") <=> (score < 4000)

\* C2: every percentage from 0.00 to 100.00 gets exactly one tier, HIGH from
\* 70.00, MODERATE from 40.00 to below 70.00, LOW below 40.00, and a larger
\* percentage never gets a lower tier.
C2_Bucketing ==
    probe.ta # "" =>
        /\ TierAgrees(probe.ta, probe.a)
        /\ TierAgrees(probe.tb, probe.b)
        /\ probe.a <= probe.b => TierRank[probe.ta] <= TierRank[probe.tb]
        /\ probe.b <= probe.a => TierRank[probe.tb] <= TierRank[probe.ta]
        /\ probe.a = 4000 => probe.ta = "MODERATE RISK"
        /\ probe.a = 7000 => probe.ta = "HIGH RISK"
        /\ probe.b = 8500 => probe.tb = "HIGH RISK"
        /\ probe.b = 5500 => probe.tb = "MODERATE RISK"
        /\ probe.b = 1000 => probe.tb = "LOW RISK"

C2_Witness ==
    /\ probe.a = 7000 /\ probe.ta = "HIGH RISK"
    /\ probe.b = 6999 /\ probe.tb = "MODERATE RISK"

Unrecognized ==
    \/ raw.weapon_used \notin Range(WeaponOptions)
    \/ raw.victim_gender \notin Range(GenderOptions)

ClassifierFailed == page.predicted /\ page.prediction_proba = <<>>

\* The score is the probability (units of 10^-5) rounded to hundredths of a
\* percent.
RoundedFrom(score, proba) ==
    /\ 10 * score - 5 <= proba
    /\ proba <= 10 * score + 5

\* C4: a submission whose classifier call fails shows an error and neither a
\* percentage nor a tier, and leaves the cached handle as it was; a
\* submission whose classifier call returns renders its own result, also
\* right after a failed one.
C4_InferenceError ==
    /\ [](ClassifierFailed =>
            /\ page.status = "predict_error"
            /\ page.error # <<>>
            /\ page.prediction_score = <<>>
            /\ page.display = <<>>
            /\ page.risk_level = ""
            /\ page.color = "")
    /\ [][ClassifierFailed' => (cache' = cache /\ model' = model /\ loads' = loads)]_vars
    /\ [][(ClassifierFailed /\ page'.prediction_proba # <<>>) =>
            /\ page'.status = "result"
            /\ page'.error = <<>>
            /\ RoundedFrom(page'.prediction_score[1], page'.prediction_proba[1])
            /\ TierAgrees(page'.risk_level, page'.prediction_score[1])]_vars

C4_Witness ==
    /\ ClassifierFailed
    /\ page.status = "predict_error"
    /\ cache # {}

NamesPath(message) == \E i \in DOMAIN message : message[i] = MODEL_PATH_STR

\* C5: every failed model load halts the run before the prediction logic (no
\* classifier call, no tier), and the diagnostic names the artifact path.
C5_LoadFailureFatal ==
    (page.status # "not_run" /\ model = <<>>) =>
        /\ page.status = "load_halted"
        /\ ~page.predicted
        /\ page.risk_level = ""
        /\ page.error # <<>>
        /\ NamesPath(page.error)

\* C6: the artifact is loaded at most once; once a handle is cached, no run
\* or submission loads again or changes the cache, every run sees the same
\* handle, and every prediction is made with the cached handle.
C6_LoadedOnce ==
    /\ [](/\ loads <= 1
          /\ page.predicted => (model # <<>> /\ <<MODEL_PATH_STR, model[1]>> \in cache))
    /\ [][cache # {} => (cache' = cache /\ loads' = loads)]_vars
    /\ [][(model # <<>> /\ model' # <<>>) => model' = model]_vars

C6_Witness ==
    /\ loads = 1
    /\ page.status = "result"
    /\ cache = {<<MODEL_PATH_STR, 1>>}
    /\ model = <<1>>

\* C9: a submission whose raw input equals that of an earlier submission,
\* whatever was submitted in between, hands the same vector to the
\* classifier.
C9_EncodingPure ==
    (ref # <<>> /\ page.predicted) =>
        (ref[1].raw = raw => page.input_df.row = ref[1].row)

C9_Witness ==
    /\ ref # <<>>
    /\ ref[1].later = MaxLater
    /\ page.predicted
    /\ ref[1].raw = raw
    /\ page.input_df.row = ref[1].row

\* C10: the rendered percentage is the probability rounded to two decimals,
\* lies in [0, 100], and the rendered tier is the tier of the rendered
\* percentage; 69.996 is rendered 70.0 and HIGH.
C10_TierFromRounded ==
    page.status = "result" =>
        LET p == page.prediction_proba[1]
            s == page.prediction_score[1]
        IN  /\ s \in 0 .. 10000
            /\ RoundedFrom(s, p)
            /\ page.display = <<s \div 100, IF s % 10 = 0 THEN <<(s % 100) \div 10>>
                                            ELSE <<(s % 100) \div 10, s % 10>> >>
            /\ TierAgrees(page.risk_level, s)
            /\ p = 69996 =>
                  (s = 7000 /\ page.display = <<70, <<0>>>> /\ page.risk_level = "HIGH RISK")

C10_Witness ==
    /\ page.status = "result"
    /\ page.prediction_proba = <<69996>>
    /\ page.display = <<70, <<0>>>>
    /\ page.risk_level = "HIGH RISK"

====
